---- MODULE Spec2Model ----
(***************************************************************************)
(* A model of the bookmark dashboard of Smart-BookMark-App: the session    *)
(* view held by Dashboard.tsx, the add form (BookmarkForm.tsx), the        *)
(* optimistic delete with its recovery re-fetch and the realtime           *)
(* subscription (BookmarkList.tsx), against a Store (the bookmarks table)  *)
(* and its change feed.  One session is modelled in full; every other tab  *)
(* or user reaches it only through the Store and the feed, and is          *)
(* modelled by the rows it inserts and deletes there.                      *)
(*                                                                         *)
(* Text is a sequence of one-character strings, so that trimming, prefix   *)
(* tests and URL parsing are computed character by character.              *)
(***************************************************************************)
EXTENDS Integers, Sequences, FiniteSets, TLC

\* ------------------------------------------------------------------ text

Null == "null"

Letters ==
  { "a","b","c","d","e","f","g","h","i","j","k","l","m",
    "n","o","p","q","r","s","t","u","v","w","x","y","z",
    "A","B","C","D","E","F","G","H","I","J","K","L","M",
    "N","O","P","Q","R","S","T","U","V","W","X","Y","Z" }

Digits == { "0","1","2","3","4","5","6","7","8","9" }

Whitespace == { " ", "\t", "\n" }

\* String.prototype.trim
RECURSIVE trimStart(_)
trimStart(s) ==
  IF s # <<>> /\ Head(s) \in Whitespace THEN trimStart(Tail(s)) ELSE s

RECURSIVE trimEnd(_)
trimEnd(s) ==
  IF s # <<>> /\ s[Len(s)] \in Whitespace
  THEN trimEnd(SubSeq(s, 1, Len(s) - 1))
  ELSE s

trim(s) == trimEnd(trimStart(s))

\* String.prototype.startsWith
startsWith(s, p) == Len(s) >= Len(p) /\ SubSeq(s, 1, Len(p)) = p

\* String.prototype.includes, for a one-character needle
includes(s, c) == \E i \in 1..Len(s) : s[i] = c

\* String.prototype.split on a one-character separator
RECURSIVE split(_, _)
split(s, sep) ==
  IF \A i \in 1..Len(s) : s[i] # sep
  THEN << s >>
  ELSE LET k == CHOOSE i \in 1..Len(s) :
                   s[i] = sep /\ \A j \in 1..(i - 1) : s[j] # sep
       IN  << SubSeq(s, 1, k - 1) >> \o split(SubSeq(s, k + 1, Len(s)), sep)

HttpPrefix  == << "h","t","t","p",":","/","/" >>
HttpsPrefix == << "h","t","t","p","s",":","/","/" >>

\* Adds https:// if protocol is missing
normaliseUrl(raw) ==
  LET trimmed == trim(raw)
  IN  IF ~startsWith(trimmed, HttpPrefix) /\ ~startsWith(trimmed, HttpsPrefix)
      THEN HttpsPrefix \o trimmed
      ELSE trimmed

\* ---------------------------------------------------------- new URL(...)
\* The platform's URL parser, for an absolute URL with no base, over ASCII
\* input without percent escapes, brackets or backslashes.

\* The leading scheme: a letter, then letters, digits, + - . up to the colon.
SchemeLen(s) ==
  IF s = <<>> \/ Head(s) \notin Letters THEN 0
  ELSE IF \A i \in 1..Len(s) : s[i] # ":" THEN 0
  ELSE LET k == CHOOSE i \in 1..Len(s) :
                   s[i] = ":" /\ \A j \in 1..(i - 1) : s[j] # ":"
       IN  IF \A j \in 1..(k - 1) : s[j] \in Letters \cup Digits \cup {"+", "-", "."}
           THEN k - 1 ELSE 0

UpperCase == << "A","B","C","D","E","F","G","H","I","J","K","L","M",
                "N","O","P","Q","R","S","T","U","V","W","X","Y","Z" >>
LowerCase == << "a","b","c","d","e","f","g","h","i","j","k","l","m",
                "n","o","p","q","r","s","t","u","v","w","x","y","z" >>

toLowerChar(c) ==
  IF \E i \in 1..Len(UpperCase) : UpperCase[i] = c
  THEN LowerCase[CHOOSE i \in 1..Len(UpperCase) : UpperCase[i] = c]
  ELSE c

toLowerCase(s) == [ i \in 1..Len(s) |-> toLowerChar(s[i]) ]

RECURSIVE skipSlashes(_)
skipSlashes(s) ==
  IF s # <<>> /\ Head(s) = "/" THEN skipSlashes(Tail(s)) ELSE s

\* The authority ends at the first / ? # or at the end of input.
RECURSIVE takeAuthority(_)
takeAuthority(s) ==
  IF s = <<>> \/ Head(s) \in {"/", "?", "#"} THEN <<>>
  ELSE << Head(s) >> \o takeAuthority(Tail(s))

\* What follows the last @ (the credentials before it are dropped).
RECURSIVE afterLastAt(_)
afterLastAt(s) ==
  IF includes(s, "@")
  THEN afterLastAt(SubSeq(s, (CHOOSE i \in 1..Len(s) : s[i] = "@"
                                  /\ \A j \in 1..(i - 1) : s[j] # "@") + 1, Len(s)))
  ELSE s

ForbiddenHostChars == Whitespace \cup { "#", "/", ":", "<", ">", "?", "@", "^", "|", "%" }

SpecialSchemes == { << "h","t","t","p" >>, << "h","t","t","p","s" >> }

ParseFailure == [ ok |-> FALSE, protocol |-> <<>>, hostname |-> <<>> ]

parseURL(input) ==
  LET s == trim(input)
      n == SchemeLen(s)
      scheme == toLowerCase(SubSeq(s, 1, n))
      rest == SubSeq(s, n + 2, Len(s))
  IN  IF n = 0 THEN ParseFailure
      ELSE IF scheme \notin SpecialSchemes
      THEN [ ok |-> TRUE, protocol |-> scheme \o << ":" >>, hostname |-> <<>> ]
      ELSE
        LET hostport == afterLastAt(takeAuthority(skipSlashes(rest)))
            parts == split(hostport, ":")
            host == parts[1]
            port == IF Len(parts) > 1 THEN parts[2] ELSE <<>>
        IN  IF \/ Len(parts) > 2
               \/ host = <<>>
               \/ \E i \in 1..Len(port) : port[i] \notin Digits
               \/ \E i \in 1..Len(host) : host[i] \in ForbiddenHostChars
            THEN ParseFailure
            ELSE [ ok |-> TRUE, protocol |-> scheme \o << ":" >>,
                   hostname |-> toLowerCase(host) ]

\* /^[a-zA-Z]{2,6}$/
TldMinLen == 2
TldMaxLen == 6
matchesTld(tld) ==
  /\ Len(tld) >= TldMinLen
  /\ Len(tld) <= TldMaxLen
  /\ \A i \in 1..Len(tld) : tld[i] \in Letters

\* /^[a-zA-Z0-9.-]+$/
matchesHostname(h) ==
  /\ Len(h) >= 1
  /\ \A i \in 1..Len(h) : h[i] \in Letters \cup Digits \cup {".", "-"}

MsgTitleRequired == "Title is required."
MsgUrlRequired   == "URL is required."
MsgProtocol      == "URL must use http:// or https://."
MsgRealUrl       == "Please enter a real URL with a domain (e.g. https://example.com)."
MsgValidUrl      == "Please enter a valid URL (e.g. https://example.com)."
MsgInvalidChars  == "URL contains invalid characters."
MsgNotLoggedIn   == "You must be logged in to add bookmarks."

\* A slip: the title is tested before it is trimmed.
validateUntrimmedTitle(title, url) ==
  IF title = <<>> THEN MsgTitleRequired
  ELSE IF trim(url) = <<>> THEN MsgUrlRequired
  ELSE
    LET parsed == parseURL(normaliseUrl(url))
        hostname == parsed.hostname
        parts == split(hostname, ".")
        tld == parts[Len(parts)]
    IN  IF ~parsed.ok THEN MsgValidUrl
        ELSE IF ~includes(hostname, ".") THEN MsgRealUrl
        ELSE IF \E i \in 1..Len(parts) : Len(parts[i]) = 0 THEN MsgValidUrl
        ELSE IF ~matchesTld(tld) THEN MsgValidUrl
        ELSE IF ~matchesHostname(hostname) THEN MsgInvalidChars
        ELSE Null

\* BookmarkForm.validate: the message of the first failing rule, or Null
validate(title, url) ==
  IF trim(title) = <<>> THEN MsgTitleRequired
  ELSE IF trim(url) = <<>> THEN MsgUrlRequired
  ELSE
    LET parsed == parseURL(normaliseUrl(url))
        hostname == parsed.hostname
        parts == split(hostname, ".")
        tld == parts[Len(parts)]
    IN  IF ~parsed.ok THEN MsgValidUrl
        ELSE IF parsed.protocol \notin { << "h","t","t","p",":" >>, << "h","t","t","p","s",":" >> }
             THEN MsgProtocol
        ELSE IF ~includes(hostname, ".") THEN MsgRealUrl
        ELSE IF \E i \in 1..Len(parts) : Len(parts[i]) = 0 THEN MsgValidUrl
        ELSE IF ~matchesTld(tld) THEN MsgValidUrl
        ELSE IF Len(parts[Len(parts) - 1]) < 1 THEN MsgValidUrl
        ELSE IF ~matchesHostname(hostname) THEN MsgInvalidChars
        ELSE Null

\* ------------------------------------------------------------ bounds

\* Rows the Store ever assigns an identifier to.
MaxRows == 2

\* Requests of the session (creates, deletes with their re-fetch) outstanding
\* at once: the user starts no further one while this many are in flight.
MaxInFlight == 2

\* The identifiers of the rows the Dashboard handlers are handed on their
\* own, and so the longest view they build.
MaxViewLen == 3

\* ------------------------------------------------------------- the Store

Me == "me"
Other == "other"
Users == { Me, Other }

Ids == 1..MaxRows

\* A well-formed title and address, as typed into the form.
TitleD == << " ", "D" >>
UrlAIo == << "a", ".", "i", "o" >>

\* What else the form is filled with under SpecForm.
TitleBlank == << " " >>
UrlBlank   == << " " >>
UrlHello   == << "h", "e", "l", "l", "o" >>
UrlAC      == HttpPrefix \o << "a", ".", "c" >>
UrlFtp     == << "f", "t", "p", ":", "/", "/", "a", ".", "i", "o" >>
UrlFtpAt   == << "f", "t", "p", ":", "x", "@", "a", ".", "i", "o" >>
UrlPath    == << "a", ".", "i", "o", "/", "d" >>
UrlSpace   == << "a", " ", "b", ".", "i", "o" >>
UrlUnder   == << "a", "_", "b", ".", "i", "o" >>
UrlDots    == << "a", ".", ".", "i", "o" >>
UrlUpper   == HttpsPrefix \o << "A", ".", "I", "o" >>

Titles == { <<>>, TitleBlank, TitleD }
Urls == { <<>>, UrlBlank, UrlHello, UrlAC, UrlFtp, UrlFtpAt, UrlAIo, UrlPath, UrlSpace,
          UrlUnder, UrlDots, UrlUpper }

\* Another tab runs the same form: the title and address of the rows it writes.
TitleTab == trim(TitleD)
UrlTab == normaliseUrl(UrlAIo)

\* lib/types Bookmark, as the components use it
Bookmark(id, user_id, t, u, created_at) ==
  [ id |-> id, user_id |-> user_id, title |-> t, url |-> u, created_at |-> created_at ]

StoreErrorMsg == "store error"

\* A response's data is a sequence: empty for null, else the one row returned.
NoRequest == [ title |-> <<>>, url |-> <<>>, user_id |-> Null ]
NoResult  == [ data |-> <<>>, error |-> Null ]

\* The re-fetch's { data }: null, or the rows returned
NullData == [ isNull |-> TRUE, list |-> <<>> ]
Data(list) == [ isNull |-> FALSE, list |-> list ]

VARIABLES
  rows,           \* the bookmarks table
  nextId,         \* the next identifier and timestamp the Store assigns
  feed,           \* change-feed events sent to this session, not yet delivered
  signedIn,       \* the Identity Provider holds a session for Me
  bookmarks,      \* Dashboard: the session view
  title, url, isSubmitting, error, success,   \* BookmarkForm state
  addPc, addReq, addResult,                   \* BookmarkForm.handleSubmit in flight
  timers,         \* pending setTimeout(() => setSuccess(false), 2000)
  deletingIds, deleteError, realtimeStatus,   \* BookmarkList state
  delPc, delData, \* BookmarkList.handleDelete in flight, per identifier
  listPc,         \* the subscription effect's getUser promise
  authSubscription,   \* the effect's onAuthStateChange listener
  isSubscribed, channel,                      \* the subscription effect's locals
  request,        \* the HTTP request the server is handling
  response,       \* the server's answer to it
  redirects       \* the redirects the browser has followed for this navigation

storeVars == << rows, nextId, feed, signedIn >>
formVars  == << title, url, isSubmitting, error, success, addPc, addReq, addResult, timers >>
listVars  == << deletingIds, deleteError, realtimeStatus, delPc, delData,
                listPc, authSubscription, isSubscribed, channel >>
routeVars == << request, response, redirects >>
vars == << rows, nextId, feed, signedIn, bookmarks,
           title, url, isSubmitting, error, success, addPc, addReq, addResult, timers,
           deletingIds, deleteError, realtimeStatus, delPc, delData,
           listPc, authSubscription, isSubscribed, channel, request, response, redirects >>

\* ------------------------------------------------------- Dashboard.tsx

HasId(view, id) == \E i \in 1..Len(view) : view[i].id = id

RECURSIVE filterOut(_, _)
filterOut(view, id) ==
  IF view = <<>> THEN <<>>
  ELSE IF Head(view).id # id
       THEN << Head(view) >> \o filterOut(Tail(view), id)
       ELSE filterOut(Tail(view), id)

\* A slip: the new row is put last.
handleBookmarkAddedAppends(prev, newBookmark) ==
  IF HasId(prev, newBookmark.id) THEN prev ELSE Append(prev, newBookmark)

\* A slip: no test for duplicates.
handleBookmarkAddedNoDedup(prev, newBookmark) == << newBookmark >> \o prev

\* Called by BookmarkForm immediately after successful insert
handleBookmarkAdded(prev, newBookmark) ==
  IF HasId(prev, newBookmark.id) THEN prev ELSE << newBookmark >> \o prev

\* A slip: the filter's test is inverted.
RECURSIVE filterOnly(_, _)
filterOnly(view, id) ==
  IF view = <<>> THEN <<>>
  ELSE IF Head(view).id = id
       THEN << Head(view) >> \o filterOnly(Tail(view), id)
       ELSE filterOnly(Tail(view), id)

handleBookmarkDeletedInverted(prev, id) == filterOnly(prev, id)

\* A slip: the view is left alone until the Store answers.
handleBookmarkDeletedLater(prev, id) == prev

\* Called by BookmarkList when a bookmark is deleted
handleBookmarkDeleted(prev, id) == filterOut(prev, id)

\* A slip: no test for duplicates.
handleRealtimeInsertNoDedup(prev, newBookmark) == << newBookmark >> \o prev

\* A slip: a row already in the view is replaced by the new one.
handleRealtimeInsertReplaces(prev, newBookmark) ==
  IF HasId(prev, newBookmark.id)
  THEN [ i \in 1..Len(prev) |-> IF prev[i].id = newBookmark.id THEN newBookmark ELSE prev[i] ]
  ELSE << newBookmark >> \o prev

\* A slip: the new row is put last.
handleRealtimeInsertAppends(prev, newBookmark) ==
  IF HasId(prev, newBookmark.id) THEN prev ELSE Append(prev, newBookmark)

\* Called by BookmarkList when Realtime fires (cross-tab sync)
handleRealtimeInsert(prev, newBookmark) ==
  IF HasId(prev, newBookmark.id) THEN prev ELSE << newBookmark >> \o prev

handleRealtimeDelete(prev, id) == filterOut(prev, id)

\* A slip: only the newest row returned is merged.
forEachRealtimeInsertFirstOnly(prev, data) ==
  IF data = <<>> THEN prev ELSE handleRealtimeInsert(prev, Head(data))

\* data.forEach((b) => onRealtimeInsert(b))
RECURSIVE forEachRealtimeInsert(_, _)
forEachRealtimeInsert(prev, data) ==
  IF data = <<>> THEN prev
  ELSE forEachRealtimeInsert(handleRealtimeInsert(prev, Head(data)), Tail(data))

\* -------------------------------------------------------- middleware.ts

RootPath == << "/" >>
DashboardPath == << "/", "d", "a", "s", "h", "b", "o", "a", "r", "d" >>

\* The paths requested
Paths ==
  { << "/" >>,
    << "/", "d", "a", "s", "h", "b", "o", "a", "r", "d" >>,
    << "/", "d", "a", "s", "h", "b", "o", "a", "r", "d", "/" >>,
    << "/", "d", "a", "s", "h", "b", "o", "a", "r", "d", "/", "a" >>,
    << "/", "d", "a", "s", "h", "b", "o", "a", "r", "d", "s" >>,
    << "/", "d", "a", "s", "h" >>,
    << "/", "a" >>,
    << "/", "a", "u", "t", "h", "/", "c", "a", "l", "l", "b", "a", "c", "k" >>,
    << "/", "f", "a", "v", "i", "c", "o", "n", ".", "i", "c", "o" >>,
    << "/", "f", "a", "v", "i", "c", "o", "n", "x", "i", "c", "o" >>,
    << "/", "d", "a", "s", "h", "b", "o", "a", "r", "d", "/", "a", ".", "p", "n", "g" >>,
    << "/", "a", ".", "s", "v", "g" >>,
    << "/", "a", ".", "p", "n", "g", "s" >>,
    << "/", "_", "n", "e", "x", "t", "/", "s", "t", "a", "t", "i", "c", "/", "a" >>,
    << "/", "_", "n", "e", "x", "t", "/", "i", "m", "a", "g", "e" >>,
    << "/", "_", "n", "e", "x", "t", "/", "a" >>,
    << "/", "d", "a", "s", "h", "b", "o", "a", "r", "d", "/", "a", ".", "j", "p", "e", "g" >>,
    << "/", "D", "a", "s", "h", "b", "o", "a", "r", "d" >> }

endsWith(s, suffix) ==
  /\ Len(suffix) <= Len(s)
  /\ SubSeq(s, Len(s) - Len(suffix) + 1, Len(s)) = suffix

\* "." of the pattern stands for any one character
startsWithFavicon(s) ==
  /\ Len(s) >= 11
  /\ SubSeq(s, 1, 7) = << "f", "a", "v", "i", "c", "o", "n" >>
  /\ SubSeq(s, 9, 11) = << "i", "c", "o" >>

ImageSuffixes ==
  { << ".", "s", "v", "g" >>,
    << ".", "p", "n", "g" >>,
    << ".", "j", "p", "g" >>,
    << ".", "j", "p", "e", "g" >>,
    << ".", "g", "i", "f" >>,
    << ".", "w", "e", "b", "p" >> }

\* config.matcher: all routes except static assets
\*   /((?!_next/static|_next/image|favicon.ico|.*\.(?:svg|png|jpg|jpeg|gif|webp)$).*)
matcher(pathname) ==
  /\ pathname # <<>>
  /\ Head(pathname) = "/"
  /\ LET rest == Tail(pathname)
     IN  /\ ~startsWith(rest, << "_", "n", "e", "x", "t", "/", "s", "t", "a", "t", "i", "c" >>)
         /\ ~startsWith(rest, << "_", "n", "e", "x", "t", "/", "i", "m", "a", "g", "e" >>)
         /\ ~startsWithFavicon(rest)
         /\ \A suffix \in ImageSuffixes : ~endsWith(rest, suffix)

PassThrough == [ kind |-> "next", pathname |-> <<>> ]
Redirect(pathname) == [ kind |-> "redirect", pathname |-> pathname ]
NoResponse == [ kind |-> "none", pathname |-> <<>> ]

\* A slip: only the dashboard's own path is protected.
middlewareExactPath(pathname, user) ==
  IF user = Null /\ pathname = DashboardPath
  THEN Redirect(RootPath)
  ELSE IF user # Null /\ pathname = RootPath
       THEN Redirect(DashboardPath)
       ELSE PassThrough

\* middleware(request), after supabase.auth.getUser()
middleware(pathname, user) ==
  IF user = Null /\ startsWith(pathname, DashboardPath)
  THEN Redirect(RootPath)
  ELSE IF user # Null /\ pathname = RootPath
       THEN Redirect(DashboardPath)
       ELSE PassThrough

\* The request that was answered with the dashboard page of the session
DashboardRequest == [ pathname |-> DashboardPath, user |-> Me ]

\* No dashboard is mounted and nothing is stored.
NoSession ==
  /\ bookmarks = <<>>
  /\ rows = {} /\ nextId = 1
  /\ feed = <<>>
  /\ signedIn = TRUE
  /\ title = <<>> /\ url = <<>>
  /\ isSubmitting = FALSE /\ error = Null /\ success = FALSE
  /\ addPc = "idle" /\ addReq = NoRequest /\ addResult = NoResult
  /\ timers = 0
  /\ deletingIds = {} /\ deleteError = Null /\ realtimeStatus = "connecting"
  /\ delPc = [ i \in Ids |-> "idle" ]
  /\ delData = [ i \in Ids |-> NullData ]
  /\ listPc = "getUser" /\ authSubscription = "listening"
  /\ isSubscribed = FALSE /\ channel = "none"

\* A browser navigates to a path, with or without a signed-in user.
InitRoute ==
  /\ NoSession
  /\ \E pathname \in Paths : \E user \in { Null, Me, Other } :
       request = [ pathname |-> pathname, user |-> user ]
  /\ response = NoResponse
  /\ redirects = 0

\* The server answers the request: the middleware runs on a matched path.
respond ==
  /\ response.kind = "none"
  /\ response' = IF matcher(request.pathname)
                 THEN middleware(request.pathname, request.user)
                 ELSE PassThrough
  /\ UNCHANGED << request, redirects >>
  /\ UNCHANGED << storeVars, bookmarks, formVars, listVars >>

\* The browser follows the redirect with the same cookies.
followRedirect ==
  /\ response.kind = "redirect"
  /\ request' = [ request EXCEPT !.pathname = response.pathname ]
  /\ response' = NoResponse
  /\ redirects' = redirects + 1
  /\ UNCHANGED << storeVars, bookmarks, formVars, listVars >>

NextRoute == respond \/ followRedirect

SpecRoute == InitRoute /\ [][NextRoute]_vars

\* ------------------------------------------------------------ the Store

\* select * from bookmarks order by created_at desc, under the row-level
\* policy auth.uid() = user_id
RECURSIVE orderDesc(_)
orderDesc(rs) ==
  IF rs = {} THEN <<>>
  ELSE LET newest == CHOOSE r \in rs : \A q \in rs : q.created_at <= r.created_at
       IN  << newest >> \o orderDesc(rs \ { newest })

listByOwner(rs, u) == orderDesc({ r \in rs : r.user_id = u })

\* A payload carries the new row of an INSERT or the old id of a DELETE.
InsertEvent(row) == [ kind |-> "INSERT", new |-> row ]
DeleteEvent(id)  == [ kind |-> "DELETE", old |-> id ]

\* The feed sends an event to this session while its channel is joined.
publish(q, ev) == IF channel = "joined" THEN Append(q, ev) ELSE q

Init ==
  /\ \E k \in 0..MaxRows : \E owner \in [ 1..k -> Users ] :
       /\ rows = { Bookmark(i, owner[i], TitleTab, UrlTab, i) : i \in 1..k }
       /\ nextId = k + 1
       /\ bookmarks = listByOwner({ Bookmark(i, owner[i], TitleTab, UrlTab, i) : i \in 1..k }, Me)
  /\ feed = <<>>
  /\ signedIn = TRUE
  /\ title = <<>> /\ url = <<>>
  /\ isSubmitting = FALSE /\ error = Null /\ success = FALSE
  /\ addPc = "idle" /\ addReq = NoRequest /\ addResult = NoResult
  /\ timers = 0
  /\ deletingIds = {} /\ deleteError = Null /\ realtimeStatus = "connecting"
  /\ delPc = [ i \in Ids |-> "idle" ]
  /\ delData = [ i \in Ids |-> NullData ]
  /\ listPc = "getUser" /\ authSubscription = "listening"
  /\ isSubscribed = FALSE /\ channel = "none"
  /\ request = DashboardRequest /\ response = PassThrough /\ redirects = 0

\* Requests of the session that have no response yet.
InFlight ==
  Cardinality({ id \in Ids : delPc[id] # "idle" }) + (IF addPc # "idle" THEN 1 ELSE 0)

\* ---------------------------------------------------- BookmarkForm.tsx

\* onChange of the title input (disabled while submitting)
setTitle(t) ==
  /\ ~isSubmitting
  /\ t # title
  /\ title' = t
  /\ UNCHANGED << storeVars, bookmarks, url, isSubmitting, error, success,
                  addPc, addReq, addResult, timers, listVars >>
  /\ UNCHANGED routeVars

\* onChange of the URL input (disabled while submitting)
setUrl(u) ==
  /\ ~isSubmitting
  /\ u # url
  /\ url' = u
  /\ UNCHANGED << storeVars, bookmarks, title, isSubmitting, error, success,
                  addPc, addReq, addResult, timers, listVars >>
  /\ UNCHANGED routeVars

\* A slip: a submit takes the success indicator down.
handleSubmitClearsSuccess ==
  /\ ~isSubmitting
  /\ addPc = "idle"
  /\ InFlight < MaxInFlight
  /\ success' = FALSE
  /\ LET validationError == validate(title, url)
     IN  IF validationError # Null
         THEN /\ error' = validationError
              /\ UNCHANGED << isSubmitting, addPc >>
         ELSE /\ error' = Null
              /\ isSubmitting' = TRUE
              /\ addPc' = "getUser"
  /\ UNCHANGED << storeVars, bookmarks, title, url, addReq, addResult,
                  timers, listVars >>
  /\ UNCHANGED routeVars

\* handleSubmit up to its first await: validation, then the identity lookup
handleSubmit ==
  /\ ~isSubmitting
  /\ addPc = "idle"
  /\ InFlight < MaxInFlight
  /\ LET validationError == validate(title, url)
     IN  IF validationError # Null
         THEN /\ error' = validationError
              /\ UNCHANGED << isSubmitting, addPc >>
         ELSE /\ error' = Null
              /\ isSubmitting' = TRUE
              /\ addPc' = "getUser"
  /\ UNCHANGED << storeVars, bookmarks, title, url, success, addReq, addResult,
                  timers, listVars >>
  /\ UNCHANGED routeVars

\* A slip: the form stays disabled when no user is found.
handleSubmitGetUserStaysDisabled ==
  /\ addPc = "getUser"
  /\ IF ~signedIn
     THEN /\ error' = MsgNotLoggedIn
          /\ addPc' = "idle"
          /\ UNCHANGED << addReq, isSubmitting >>
     ELSE /\ addReq' = [ title |-> trim(title), url |-> normaliseUrl(url), user_id |-> Me ]
          /\ addPc' = "insert"
          /\ UNCHANGED << error, isSubmitting >>
  /\ UNCHANGED << storeVars, bookmarks, title, url, success, addResult, timers, listVars >>
  /\ UNCHANGED routeVars

\* handleSubmit after supabase.auth.getUser(): no user, or the create request
handleSubmitGetUser ==
  /\ addPc = "getUser"
  /\ IF ~signedIn
     THEN /\ error' = MsgNotLoggedIn
          /\ isSubmitting' = FALSE
          /\ addPc' = "idle"
          /\ UNCHANGED addReq
     ELSE /\ addReq' = [ title |-> trim(title), url |-> normaliseUrl(url), user_id |-> Me ]
          /\ addPc' = "insert"
          /\ UNCHANGED << error, isSubmitting >>
  /\ UNCHANGED << storeVars, bookmarks, title, url, success, addResult, timers, listVars >>
  /\ UNCHANGED routeVars

\* The Store executes the create request: the row gets its id and timestamp.
\* The insert policy admits it only for the authenticated owner.
storeInsert ==
  /\ addPc = "insert"
  /\ nextId <= MaxRows
  /\ signedIn
  /\ LET row == Bookmark(nextId, addReq.user_id, addReq.title, addReq.url, nextId)
     IN  /\ rows' = rows \cup { row }
         /\ feed' = publish(feed, InsertEvent(row))
         /\ addResult' = [ data |-> << row >>, error |-> Null ]
  /\ nextId' = nextId + 1
  /\ addPc' = "inserted"
  /\ UNCHANGED << signedIn, bookmarks, title, url, isSubmitting, error, success,
                  addReq, timers, listVars >>
  /\ UNCHANGED routeVars

\* The Store rejects the create request, or the request fails.
storeInsertError ==
  /\ addPc = "insert"
  /\ addResult' = [ data |-> <<>>, error |-> StoreErrorMsg ]
  /\ addPc' = "inserted"
  /\ UNCHANGED << storeVars, bookmarks, title, url, isSubmitting, error, success,
                  addReq, timers, listVars >>
  /\ UNCHANGED routeVars

\* A slip: the fields are emptied on a rejected request too.
handleSubmitResponseClearsFields ==
  /\ addPc = "inserted"
  /\ isSubmitting' = FALSE
  /\ IF addResult.error # Null
     THEN /\ error' = addResult.error
          /\ title' = <<>>
          /\ url' = <<>>
          /\ UNCHANGED << bookmarks, success, timers >>
     ELSE /\ bookmarks' = IF addResult.data # <<>>
                          THEN handleBookmarkAdded(bookmarks, addResult.data[1])
                          ELSE bookmarks
          /\ title' = <<>>
          /\ url' = <<>>
          /\ success' = TRUE
          /\ timers' = timers + 1
          /\ UNCHANGED error
  /\ addPc' = "idle"
  /\ addReq' = NoRequest
  /\ addResult' = NoResult
  /\ UNCHANGED << storeVars, listVars >>
  /\ UNCHANGED routeVars

\* handleSubmit after the create request's response
handleSubmitResponse ==
  /\ addPc = "inserted"
  /\ isSubmitting' = FALSE
  /\ IF addResult.error # Null
     THEN /\ error' = addResult.error
          /\ UNCHANGED << bookmarks, title, url, success, timers >>
     ELSE /\ bookmarks' = IF addResult.data # <<>>
                          THEN handleBookmarkAdded(bookmarks, addResult.data[1])
                          ELSE bookmarks
          /\ title' = <<>>
          /\ url' = <<>>
          /\ success' = TRUE
          /\ timers' = timers + 1
          /\ UNCHANGED error
  /\ addPc' = "idle"
  /\ addReq' = NoRequest
  /\ addResult' = NoResult
  /\ UNCHANGED << storeVars, listVars >>
  /\ UNCHANGED routeVars

\* setTimeout(() => setSuccess(false), 2000)
successTimeout ==
  /\ timers > 0
  /\ success' = FALSE
  /\ timers' = timers - 1
  /\ UNCHANGED << storeVars, bookmarks, title, url, isSubmitting, error,
                  addPc, addReq, addResult, listVars >>
  /\ UNCHANGED routeVars

\* ---------------------------------------------------- BookmarkList.tsx

\* A slip: the delete control stays usable while the id is being deleted.
handleDeleteUnguarded(id) ==
  /\ HasId(bookmarks, id)
  /\ InFlight < MaxInFlight
  /\ deleteError' = Null
  /\ bookmarks' = handleBookmarkDeleted(bookmarks, id)
  /\ deletingIds' = deletingIds \cup { id }
  /\ delPc' = [ delPc EXCEPT ![id] = "delete" ]
  /\ UNCHANGED << storeVars, formVars, realtimeStatus, delData, listPc, authSubscription,
                  isSubscribed, channel >>
  /\ UNCHANGED routeVars

\* A slip: a delete is started only while the feed is connected.
handleDeleteWhenConnected(id) ==
  /\ realtimeStatus = "connected"
  /\ HasId(bookmarks, id)
  /\ id \notin deletingIds
  /\ InFlight < MaxInFlight
  /\ deleteError' = Null
  /\ bookmarks' = handleBookmarkDeleted(bookmarks, id)
  /\ deletingIds' = deletingIds \cup { id }
  /\ delPc' = [ delPc EXCEPT ![id] = "delete" ]
  /\ UNCHANGED << storeVars, formVars, realtimeStatus, delData, listPc, authSubscription,
                  isSubscribed, channel >>
  /\ UNCHANGED routeVars

\* A slip: the view is left alone when the delete is issued.
handleDeleteKeepsView(id) ==
  /\ HasId(bookmarks, id)
  /\ id \notin deletingIds
  /\ InFlight < MaxInFlight
  /\ deleteError' = Null
  /\ deletingIds' = deletingIds \cup { id }
  /\ delPc' = [ delPc EXCEPT ![id] = "delete" ]
  /\ UNCHANGED << storeVars, bookmarks, formVars, realtimeStatus, delData, listPc, authSubscription,
                  isSubscribed, channel >>
  /\ UNCHANGED routeVars

\* handleDelete up to its first await: the delete button of a listed
\* bookmark, enabled while its id is not in deletingIds
handleDelete(id) ==
  /\ HasId(bookmarks, id)
  /\ id \notin deletingIds
  /\ InFlight < MaxInFlight
  /\ deleteError' = Null
  /\ bookmarks' = handleBookmarkDeleted(bookmarks, id)
  /\ deletingIds' = deletingIds \cup { id }
  /\ delPc' = [ delPc EXCEPT ![id] = "delete" ]
  /\ UNCHANGED << storeVars, formVars, realtimeStatus, delData, listPc, authSubscription,
                  isSubscribed, channel >>
  /\ UNCHANGED routeVars

\* The Store executes the delete request: the delete policy lets it remove
\* only a row of the authenticated owner; removing nothing is a success too.
storeDelete(id) ==
  /\ delPc[id] = "delete"
  /\ LET gone == { r \in rows : r.id = id /\ r.user_id = Me /\ signedIn }
     IN  /\ rows' = rows \ gone
         /\ feed' = IF gone # {} THEN publish(feed, DeleteEvent(id)) ELSE feed
  /\ delPc' = [ delPc EXCEPT ![id] = "deleteOk" ]
  /\ UNCHANGED << nextId, signedIn, bookmarks, formVars, deletingIds, deleteError,
                  realtimeStatus, delData, listPc, authSubscription, isSubscribed, channel >>
  /\ UNCHANGED routeVars

\* The Store rejects the delete request, or the request fails.
storeDeleteError(id) ==
  /\ delPc[id] = "delete"
  /\ delPc' = [ delPc EXCEPT ![id] = "deleteErr" ]
  /\ UNCHANGED << storeVars, bookmarks, formVars, deletingIds, deleteError,
                  realtimeStatus, delData, listPc, authSubscription, isSubscribed, channel >>
  /\ UNCHANGED routeVars

\* A slip: a rejected delete is sent again.
handleDeleteResponseRetries(id) ==
  /\ delPc[id] \in { "deleteOk", "deleteErr" }
  /\ IF delPc[id] = "deleteErr"
     THEN /\ deleteError' = "Failed to delete"
          /\ delPc' = [ delPc EXCEPT ![id] = "delete" ]
          /\ UNCHANGED deletingIds
     ELSE /\ deletingIds' = deletingIds \ { id }
          /\ delPc' = [ delPc EXCEPT ![id] = "idle" ]
          /\ UNCHANGED deleteError
  /\ UNCHANGED << storeVars, bookmarks, formVars, realtimeStatus, delData, listPc,
                  authSubscription, isSubscribed, channel >>
  /\ UNCHANGED routeVars

\* A slip: the success path removes the bookmark a second time.
handleDeleteResponseRemovesAgain(id) ==
  /\ delPc[id] \in { "deleteOk", "deleteErr" }
  /\ IF delPc[id] = "deleteErr"
     THEN /\ deleteError' = "Failed to delete"
          /\ delPc' = [ delPc EXCEPT ![id] = "select" ]
          /\ UNCHANGED << deletingIds, bookmarks >>
     ELSE /\ deletingIds' = deletingIds \ { id }
          /\ delPc' = [ delPc EXCEPT ![id] = "idle" ]
          /\ bookmarks' = handleBookmarkDeleted(bookmarks, id)
          /\ UNCHANGED deleteError
  /\ UNCHANGED << storeVars, formVars, realtimeStatus, delData, listPc, authSubscription,
                  isSubscribed, channel >>
  /\ UNCHANGED routeVars

\* handleDelete after the delete request's response
handleDeleteResponse(id) ==
  /\ delPc[id] \in { "deleteOk", "deleteErr" }
  /\ IF delPc[id] = "deleteErr"
     THEN /\ deleteError' = "Failed to delete"
          /\ delPc' = [ delPc EXCEPT ![id] = "select" ]
          /\ UNCHANGED deletingIds
     ELSE /\ deletingIds' = deletingIds \ { id }
          /\ delPc' = [ delPc EXCEPT ![id] = "idle" ]
          /\ UNCHANGED deleteError
  /\ UNCHANGED << storeVars, bookmarks, formVars, realtimeStatus, delData, listPc, authSubscription,
                  isSubscribed, channel >>
  /\ UNCHANGED routeVars

\* The Store executes the recovery re-fetch: the owner's rows, newest first
storeSelect(id) ==
  /\ delPc[id] = "select"
  /\ delData' = [ delData EXCEPT ![id] = Data(IF signedIn THEN listByOwner(rows, Me) ELSE <<>>) ]
  /\ delPc' = [ delPc EXCEPT ![id] = "selected" ]
  /\ UNCHANGED << storeVars, bookmarks, formVars, deletingIds, deleteError,
                  realtimeStatus, listPc, authSubscription, isSubscribed, channel >>
  /\ UNCHANGED routeVars

\* The recovery re-fetch fails: it returns no data.
storeSelectError(id) ==
  /\ delPc[id] = "select"
  /\ delData' = [ delData EXCEPT ![id] = NullData ]
  /\ delPc' = [ delPc EXCEPT ![id] = "selected" ]
  /\ UNCHANGED << storeVars, bookmarks, formVars, deletingIds, deleteError,
                  realtimeStatus, listPc, authSubscription, isSubscribed, channel >>
  /\ UNCHANGED routeVars

\* A slip: the recovery restores only the row of its own delete.
handleDeleteRefetchedOwnRowOnly(id) ==
  /\ delPc[id] = "selected"
  /\ bookmarks' = IF ~delData[id].isNull
                  THEN forEachRealtimeInsert(bookmarks,
                         SelectSeq(delData[id].list, LAMBDA b : b.id = id))
                  ELSE bookmarks
  /\ deletingIds' = deletingIds \ { id }
  /\ delPc' = [ delPc EXCEPT ![id] = "idle" ]
  /\ delData' = [ delData EXCEPT ![id] = NullData ]
  /\ UNCHANGED << storeVars, formVars, deleteError, realtimeStatus, listPc, authSubscription,
                  isSubscribed, channel >>
  /\ UNCHANGED routeVars

\* A slip: the recovery replaces the view by the rows re-fetched.
handleDeleteRefetchedReplaces(id) ==
  /\ delPc[id] = "selected"
  /\ bookmarks' = IF ~delData[id].isNull THEN delData[id].list ELSE bookmarks
  /\ deletingIds' = deletingIds \ { id }
  /\ delPc' = [ delPc EXCEPT ![id] = "idle" ]
  /\ delData' = [ delData EXCEPT ![id] = NullData ]
  /\ UNCHANGED << storeVars, formVars, deleteError, realtimeStatus, listPc, authSubscription,
                  isSubscribed, channel >>
  /\ UNCHANGED routeVars

\* handleDelete after the recovery re-fetch's response
handleDeleteRefetched(id) ==
  /\ delPc[id] = "selected"
  /\ bookmarks' = IF ~delData[id].isNull
                  THEN forEachRealtimeInsert(bookmarks, delData[id].list)
                  ELSE bookmarks
  /\ deletingIds' = deletingIds \ { id }
  /\ delPc' = [ delPc EXCEPT ![id] = "idle" ]
  /\ delData' = [ delData EXCEPT ![id] = NullData ]
  /\ UNCHANGED << storeVars, formVars, deleteError, realtimeStatus, listPc, authSubscription,
                  isSubscribed, channel >>
  /\ UNCHANGED routeVars

\* A slip: no test for an earlier subscription.
startRealtimeUnguarded ==
  isSubscribed' = TRUE /\ channel' = "joining"

\* startRealtime(userId): prevent duplicate subscriptions
startRealtime ==
  IF isSubscribed
  THEN UNCHANGED << isSubscribed, channel >>
  ELSE isSubscribed' = TRUE /\ channel' = "joining"

\* Step 1: supabase.auth.getUser().then(...)
getUserResolved ==
  /\ listPc = "getUser"
  /\ listPc' = "listening"
  /\ UNCHANGED authSubscription
  /\ IF signedIn THEN startRealtime ELSE UNCHANGED << isSubscribed, channel >>
  /\ UNCHANGED << storeVars, bookmarks, formVars, deletingIds, deleteError,
                  realtimeStatus, delPc, delData >>
  /\ UNCHANGED routeVars

\* Step 2: onAuthStateChange hears SIGNED_IN with a session
onSignedIn ==
  /\ signedIn' = TRUE
  /\ IF authSubscription = "listening"
     THEN startRealtime
     ELSE UNCHANGED << isSubscribed, channel >>
  /\ UNCHANGED << rows, nextId, feed, bookmarks, formVars, deletingIds, deleteError,
                  realtimeStatus, delPc, delData, listPc, authSubscription >>
  /\ UNCHANGED routeVars

\* The effect's cleanup, when the list is unmounted: the channel the effect
\* holds is removed, and with it the events on their way to it.
cleanup ==
  /\ authSubscription = "listening"
  /\ isSubscribed' = FALSE
  /\ authSubscription' = "unsubscribed"
  /\ channel' = "none"
  /\ feed' = <<>>
  /\ UNCHANGED << rows, nextId, signedIn, bookmarks, formVars, deletingIds, deleteError,
                  realtimeStatus, delPc, delData, listPc >>
  /\ UNCHANGED routeVars

\* The session ends at the Identity Provider (a sign-out in another tab).
signOut ==
  /\ signedIn
  /\ signedIn' = FALSE
  /\ UNCHANGED << rows, nextId, feed, bookmarks, formVars, listVars >>
  /\ UNCHANGED routeVars

ChannelStatuses == { "SUBSCRIBED", "CHANNEL_ERROR", "TIMED_OUT", "CLOSED" }

\* A slip: a timed-out subscription is shown as connected.
subscribeStatusTimedOutConnects(status) ==
  /\ channel # "none"
  /\ realtimeStatus' =
       IF status = "SUBSCRIBED" \/ status = "TIMED_OUT" THEN "connected"
       ELSE IF status = "CHANNEL_ERROR" THEN "error"
       ELSE realtimeStatus
  /\ channel' = IF status = "SUBSCRIBED" THEN "joined" ELSE "down"
  /\ UNCHANGED << storeVars, bookmarks, formVars, deletingIds, deleteError,
                  delPc, delData, listPc, authSubscription, isSubscribed >>
  /\ UNCHANGED routeVars

\* A slip: an acknowledgement other than the three named puts the status
\* back to connecting.
subscribeStatusResets(status) ==
  /\ channel # "none"
  /\ realtimeStatus' =
       IF status = "SUBSCRIBED" THEN "connected"
       ELSE IF status = "CHANNEL_ERROR" \/ status = "TIMED_OUT" THEN "error"
       ELSE "connecting"
  /\ channel' = IF status = "SUBSCRIBED" THEN "joined" ELSE "down"
  /\ UNCHANGED << storeVars, bookmarks, formVars, deletingIds, deleteError,
                  delPc, delData, listPc, authSubscription, isSubscribed >>
  /\ UNCHANGED routeVars

\* .subscribe((status) => ...): the channel's acknowledgements
subscribeStatus(status) ==
  /\ channel # "none"
  /\ realtimeStatus' =
       IF status = "SUBSCRIBED" THEN "connected"
       ELSE IF status = "CHANNEL_ERROR" \/ status = "TIMED_OUT" THEN "error"
       ELSE realtimeStatus
  /\ channel' = IF status = "SUBSCRIBED" THEN "joined" ELSE "down"
  /\ UNCHANGED << storeVars, bookmarks, formVars, deletingIds, deleteError,
                  delPc, delData, listPc, authSubscription, isSubscribed >>
  /\ UNCHANGED routeVars

\* A slip: the INSERT handler has no owner test.
feedDeliverUnfiltered ==
  /\ feed # <<>>
  /\ LET payload == Head(feed)
     IN  bookmarks' =
           IF payload.kind = "INSERT"
           THEN handleRealtimeInsert(bookmarks, payload.new)
           ELSE handleRealtimeDelete(bookmarks, payload.old)
  /\ feed' = Tail(feed)
  /\ UNCHANGED << rows, nextId, signedIn, formVars, listVars >>
  /\ UNCHANGED routeVars

\* A slip: the owner test of the INSERT handler is inverted.
feedDeliverOwnerInverted ==
  /\ feed # <<>>
  /\ LET payload == Head(feed)
     IN  bookmarks' =
           IF payload.kind = "INSERT"
           THEN IF payload.new.user_id = Me
                THEN bookmarks
                ELSE handleRealtimeInsert(bookmarks, payload.new)
           ELSE handleRealtimeDelete(bookmarks, payload.old)
  /\ feed' = Tail(feed)
  /\ UNCHANGED << rows, nextId, signedIn, formVars, listVars >>
  /\ UNCHANGED routeVars

\* The postgres_changes handlers of the channel, on the next event
feedDeliver ==
  /\ feed # <<>>
  /\ LET payload == Head(feed)
     IN  bookmarks' =
           IF payload.kind = "INSERT"
           THEN IF payload.new.user_id # Me
                THEN bookmarks
                ELSE handleRealtimeInsert(bookmarks, payload.new)
           ELSE handleRealtimeDelete(bookmarks, payload.old)
  /\ feed' = Tail(feed)
  /\ UNCHANGED << rows, nextId, signedIn, formVars, listVars >>
  /\ UNCHANGED routeVars

\* ------------------------------------------------ other tabs and users

\* Another tab of this user, or another user, adds a bookmark.
otherInsert(u) ==
  /\ nextId <= MaxRows
  /\ LET row == Bookmark(nextId, u, TitleTab, UrlTab, nextId)
     IN  /\ rows' = rows \cup { row }
         /\ feed' = publish(feed, InsertEvent(row))
  /\ nextId' = nextId + 1
  /\ UNCHANGED << signedIn, bookmarks, formVars, listVars >>
  /\ UNCHANGED routeVars

\* Another tab of this user, or another user, deletes a bookmark.
otherDelete(id) ==
  /\ \E r \in rows : r.id = id
  /\ rows' = { r \in rows : r.id # id }
  /\ feed' = publish(feed, DeleteEvent(id))
  /\ UNCHANGED << nextId, signedIn, bookmarks, formVars, listVars >>
  /\ UNCHANGED routeVars

\* ------------------------------------------------------ specifications

\* The delete flow, the subscription, the feed and the other tabs.
ListNext ==
  \/ \E id \in Ids : handleDelete(id)
  \/ \E id \in Ids : storeDelete(id)
  \/ \E id \in Ids : storeDeleteError(id)
  \/ \E id \in Ids : handleDeleteResponse(id)
  \/ \E id \in Ids : storeSelect(id)
  \/ \E id \in Ids : storeSelectError(id)
  \/ \E id \in Ids : handleDeleteRefetched(id)
  \/ getUserResolved
  \/ \E status \in { "SUBSCRIBED", "CHANNEL_ERROR" } : subscribeStatus(status)
  \/ feedDeliver
  \/ \E u \in Users : otherInsert(u)
  \/ \E id \in Ids : otherDelete(id)

\* The session against the Store, the feed and other tabs.  The user fills
\* the form with a well-formed title and address and submits it complete, the
\* Store accepts the create request and the identity stays signed in; the
\* paths that reject an add leave the view alone and are taken under SpecForm.
Next ==
  \/ ListNext
  \/ setTitle(TitleD)
  \/ setUrl(UrlAIo)
  \/ (validate(title, url) = Null /\ handleSubmit)
  \/ handleSubmitGetUser
  \/ storeInsert
  \/ handleSubmitResponse

Spec == Init /\ [][Next]_vars

\* The add form in full: every sample input, a Store that may reject the
\* create request, an identity that may sign out, and the success timer.
NextForm ==
  \/ \E t \in Titles : setTitle(t)
  \/ \E u \in Urls : setUrl(u)
  \/ handleSubmit
  \/ handleSubmitGetUser
  \/ storeInsert
  \/ storeInsertError
  \/ handleSubmitResponse
  \/ successTimeout
  \/ signOut
  \/ onSignedIn

SpecForm == Init /\ [][NextForm]_vars

\* The add form with timers that run out: a pending setTimeout callback is
\* called.
SpecFormTimed == Init /\ [][NextForm]_vars /\ WF_vars(successTimeout)

\* The subscription in full: every acknowledgement of the channel and an
\* identity that signs out and in, beside the session's own adds and deletes,
\* which the Store accepts.
NextLive ==
  \/ getUserResolved
  \/ onSignedIn
  \/ signOut
  \/ \E status \in ChannelStatuses : subscribeStatus(status)
  \/ feedDeliver
  \/ \E id \in Ids : handleDelete(id)
  \/ \E id \in Ids : storeDelete(id)
  \/ \E id \in Ids : handleDeleteResponse(id)
  \/ setTitle(TitleD)
  \/ setUrl(UrlAIo)
  \/ (validate(title, url) = Null /\ handleSubmit)
  \/ handleSubmitGetUser
  \/ storeInsert
  \/ handleSubmitResponse

SpecLive == Init /\ [][NextLive]_vars

\* The list against other tabs, with a feed that delivers every event it
\* has sent: the channel's handlers run while an event is waiting.
SpecFeed == Init /\ [][ListNext]_vars /\ WF_vars(feedDeliver)

\* The adds and deletes with every outcome: a form that validation
\* refuses, an identity that signs out, a Store that rejects a create
\* request, a delete or a re-fetch.
NextOutcomes ==
  \/ setTitle(TitleD)
  \/ setUrl(UrlAIo)
  \/ handleSubmit
  \/ handleSubmitGetUser
  \/ storeInsert
  \/ storeInsertError
  \/ handleSubmitResponse
  \/ signOut
  \/ onSignedIn
  \/ \E id \in Ids : handleDelete(id)
  \/ \E id \in Ids : storeDelete(id)
  \/ \E id \in Ids : storeDeleteError(id)
  \/ \E id \in Ids : handleDeleteResponse(id)
  \/ \E id \in Ids : storeSelect(id)
  \/ \E id \in Ids : storeSelectError(id)
  \/ \E id \in Ids : handleDeleteRefetched(id)

\* Every request gets a response and every continuation of an awaiting
\* handler runs once its response is there.
OutcomesFairness ==
  /\ WF_vars(handleSubmitGetUser)
  /\ WF_vars(storeInsert \/ storeInsertError)
  /\ WF_vars(handleSubmitResponse)
  /\ \A id \in Ids : WF_vars(storeDelete(id) \/ storeDeleteError(id))
  /\ \A id \in Ids : WF_vars(handleDeleteResponse(id))
  /\ \A id \in Ids : WF_vars(storeSelect(id) \/ storeSelectError(id))
  /\ \A id \in Ids : WF_vars(handleDeleteRefetched(id))

SpecOutcomes == Init /\ [][NextOutcomes]_vars /\ OutcomesFairness

\* The subscription effect from mount to unmount, against an identity that
\* signs out and in and other tabs that write to the Store.
NextClose ==
  \/ getUserResolved
  \/ onSignedIn
  \/ signOut
  \/ \E status \in ChannelStatuses : subscribeStatus(status)
  \/ cleanup
  \/ feedDeliver
  \/ \E u \in Users : otherInsert(u)
  \/ \E id \in Ids : otherDelete(id)

SpecClose == Init /\ [][NextClose]_vars

\* The four Dashboard handlers on their own, from the empty view, handed
\* any row and any identifier: a row of the view and a row handed to a
\* handler may share an identifier and differ in title.
TitleX == << "X" >>
TitleY == << "Y" >>
ViewIds == 1..MaxViewLen
Rows == { Bookmark(i, Me, t, UrlTab, i) : i \in ViewIds, t \in { TitleTab, TitleX, TitleY } }

InitFn ==
  /\ bookmarks = <<>>
  /\ rows = {} /\ nextId = 1
  /\ feed = <<>>
  /\ signedIn = TRUE
  /\ title = <<>> /\ url = <<>>
  /\ isSubmitting = FALSE /\ error = Null /\ success = FALSE
  /\ addPc = "idle" /\ addReq = NoRequest /\ addResult = NoResult
  /\ timers = 0
  /\ deletingIds = {} /\ deleteError = Null /\ realtimeStatus = "connecting"
  /\ delPc = [ i \in Ids |-> "idle" ]
  /\ delData = [ i \in Ids |-> NullData ]
  /\ listPc = "getUser" /\ authSubscription = "listening"
  /\ isSubscribed = FALSE /\ channel = "none"
  /\ request = DashboardRequest /\ response = PassThrough /\ redirects = 0

\* setBookmarks(updater) of each handler
onBookmarkAdded(newBookmark) ==
  /\ bookmarks' = handleBookmarkAdded(bookmarks, newBookmark)
  /\ UNCHANGED << storeVars, formVars, listVars >>
  /\ UNCHANGED routeVars

onBookmarkDeleted(id) ==
  /\ bookmarks' = handleBookmarkDeleted(bookmarks, id)
  /\ UNCHANGED << storeVars, formVars, listVars >>
  /\ UNCHANGED routeVars

onRealtimeInsert(newBookmark) ==
  /\ bookmarks' = handleRealtimeInsert(bookmarks, newBookmark)
  /\ UNCHANGED << storeVars, formVars, listVars >>
  /\ UNCHANGED routeVars

onRealtimeDelete(id) ==
  /\ bookmarks' = handleRealtimeDelete(bookmarks, id)
  /\ UNCHANGED << storeVars, formVars, listVars >>
  /\ UNCHANGED routeVars

NextFn ==
  \/ \E b \in Rows : onBookmarkAdded(b)
  \/ \E id \in ViewIds : onBookmarkDeleted(id)
  \/ \E b \in Rows : onRealtimeInsert(b)
  \/ \E id \in ViewIds : onRealtimeDelete(id)

SpecFn == InitFn /\ [][NextFn]_vars

\* ---------------------------------------------------------------- claims

\* C1: in every reachable state of the session, whatever the order of the
\* snapshot, add responses, feed inserts and deletes, local deletes and the
\* recovery re-fetch, no identifier occurs twice in the view.
C1_NoDuplicateIds ==
  \A i, j \in 1..Len(bookmarks) : bookmarks[i].id = bookmarks[j].id => i = j

\* A local add was confirmed, a delete failed and its recovery was applied,
\* and the view holds every row.
C1_Witness ==
  /\ success
  /\ deleteError # Null
  /\ \A id \in Ids : delPc[id] = "idle"
  /\ Len(bookmarks) = MaxRows

\* C2: an insert handler handed a row whose identifier is in the view leaves
\* the view as it is (the row held is kept, in its place), and after any
\* insert of a row a second insert of it changes nothing.
C2_InsertPresentUnchanged ==
  [][ \A b \in Rows :
        (onBookmarkAdded(b) \/ onRealtimeInsert(b)) =>
          /\ HasId(bookmarks, b.id) => bookmarks' = bookmarks
          /\ handleBookmarkAdded(bookmarks', b) = bookmarks'
          /\ handleRealtimeInsert(bookmarks', b) = bookmarks'
    ]_vars

\* The view holds, not in front, a row whose identifier another row shares.
C2_Witness ==
  /\ Len(bookmarks) = MaxViewLen
  /\ \E b \in Rows : b.id = bookmarks[Len(bookmarks)].id /\ b # bookmarks[Len(bookmarks)]

\* C3: an insert handler handed a row whose identifier is not in the view
\* puts the row first and keeps the previous view, in its order, behind it.
C3_InsertAbsentPrepends ==
  [][ \A b \in Rows :
        (~HasId(bookmarks, b.id) /\ (onBookmarkAdded(b) \/ onRealtimeInsert(b))) =>
          /\ Len(bookmarks') = Len(bookmarks) + 1
          /\ bookmarks'[1] = b
          /\ \A i \in 1..Len(bookmarks) : bookmarks'[i + 1] = bookmarks[i]
    ]_vars

\* A view built by inserts, the older identifier in front.
C3_Witness ==
  /\ Len(bookmarks) >= 2
  /\ bookmarks[1].id < bookmarks[2].id

\* C4: a delete handler yields the previous view without the entry of that
\* identifier, the others in their order; the view is unchanged when the
\* identifier is absent.
C4_DeleteRemovesOne ==
  [][ \A id \in ViewIds :
        (onBookmarkDeleted(id) \/ onRealtimeDelete(id)) =>
          IF ~HasId(bookmarks, id)
          THEN bookmarks' = bookmarks
          ELSE \E k \in 1..Len(bookmarks) :
                 /\ bookmarks[k].id = id
                 /\ bookmarks' = SubSeq(bookmarks, 1, k - 1)
                                   \o SubSeq(bookmarks, k + 1, Len(bookmarks))
    ]_vars

\* A view with a gap in its identifiers: the middle one was deleted.
C4_Witness ==
  /\ Len(bookmarks) = MaxViewLen - 1
  /\ \E i \in ViewIds : \E j \in ViewIds :
        i < j /\ ~HasId(bookmarks, i) /\ HasId(bookmarks, j)

NewestFirst(view) ==
  \A i, j \in 1..Len(view) : i < j => view[i].created_at >= view[j].created_at

\* C5: in every reachable state the view is ordered newest-first by creation
\* timestamp, the delete-failure recovery included.
C5_NewestFirst == NewestFirst(bookmarks)

\* The response of the Store to a delete has not been handled yet.
AwaitingDelete(pc) == pc \in { "delete", "deleteOk", "deleteErr" }

\* C6: the step that issues a delete request has already removed the
\* bookmark from the view, and while the delete's response is outstanding the
\* bookmark comes back into the view only by an insert of another operation:
\* a feed event, an add response or another delete's recovery.
C6_RemovedBeforeRequest ==
  [][ \A id \in Ids :
        /\ handleDelete(id) => (~HasId(bookmarks', id) /\ delPc'[id] = "delete")
        /\ ( /\ AwaitingDelete(delPc[id]) /\ AwaitingDelete(delPc'[id])
             /\ ~HasId(bookmarks, id) /\ HasId(bookmarks', id) )
           => \/ feedDeliver
              \/ handleSubmitResponse
              \/ \E other \in Ids \ { id } : handleDeleteRefetched(other)
    ]_vars

\* A delete request is with the Store and the bookmark is not in the view.
C6_Witness ==
  \E id \in Ids :
    /\ delPc[id] = "delete"
    /\ ~HasId(bookmarks, id)
    /\ \E r \in rows : r.id = id

StoredForMe(id) == \E r \in rows : r.id = id /\ r.user_id = Me

C8_AbsentAtSuccess ==
  [][ \A id \in Ids :
        (delPc[id] = "deleteOk" /\ handleDeleteResponse(id)) =>
          (~HasId(bookmarks, id) /\ bookmarks' = bookmarks)
    ]_vars

\* C8, amended: when a delete request returns success the success path does
\* not change the view, also when the bookmark has been put back into it
\* since the delete was issued.
C8_SuccessLeavesView ==
  [][ \A id \in Ids :
        (delPc[id] = "deleteOk" /\ handleDeleteResponse(id)) =>
          (bookmarks' = bookmarks /\ deleteError' = deleteError)
    ]_vars

\* The Store has executed a delete whose bookmark is back in the view.
C8_Witness ==
  \E id \in Ids : delPc[id] = "deleteOk" /\ HasId(bookmarks, id)

\* The sample addresses the URL-shape rule rejects: no dot in the hostname, a
\* one-letter top-level label, a scheme other than http and https, a space or
\* an underscore in the hostname, an empty label.
BadUrls == { UrlHello, UrlAC, UrlFtp, UrlSpace, UrlUnder, UrlDots }

ValidationMessages ==
  { MsgTitleRequired, MsgUrlRequired, MsgProtocol, MsgRealUrl, MsgValidUrl, MsgInvalidChars }

\* C9: a submit whose title is empty after trimming, or whose address is empty
\* or breaks the URL-shape rule, sets a validation error, starts no identity
\* lookup and no create request, and leaves the view and the fields alone.
C9_InvalidSubmitIsLocal ==
  [][ ( /\ handleSubmit
        /\ (trim(title) = <<>> \/ trim(url) = <<>> \/ url \in BadUrls) ) =>
          /\ error' \in ValidationMessages
          /\ addPc' = "idle" /\ ~isSubmitting' /\ addReq' = NoRequest
          /\ UNCHANGED << rows, nextId, feed, bookmarks, title, url >>
    ]_vars

\* A blank title with a good address was refused, the view holding rows.
C9_Witness ==
  /\ error = MsgTitleRequired
  /\ title = TitleBlank
  /\ url = UrlAIo
  /\ bookmarks # <<>>

\* C10 as claimed: after a successful add the Store-returned row is first in
\* the view.
C10_AddedRowFirst ==
  [][ (handleSubmitResponse /\ addResult.error = Null) =>
        (bookmarks' # <<>> /\ bookmarks'[1] = addResult.data[1])
    ]_vars

\* C10, amended: after a successful add the Store-returned row is in the
\* view; it is first when the view did not hold it as the response arrived,
\* and otherwise the view is unchanged.
C10_AddedRowMerged ==
  [][ (handleSubmitResponse /\ addResult.error = Null) =>
        /\ HasId(bookmarks', addResult.data[1].id)
        /\ IF HasId(bookmarks, addResult.data[1].id)
           THEN bookmarks' = bookmarks
           ELSE bookmarks' = << addResult.data[1] >> \o bookmarks
    ]_vars

\* The add's response is due while the view holds another row and not the
\* row added.
C10_Witness ==
  /\ addPc = "inserted"
  /\ bookmarks # <<>>
  /\ ~HasId(bookmarks, addResult.data[1].id)

\* C11: when the Store rejects an add request, the response step sets the
\* Store's message as the form error, keeps the title and address fields at
\* the values that were submitted, and leaves the view and the Store alone;
\* the rejected request itself stores nothing.
C11_RejectedAddKeepsForm ==
  [][ /\ storeInsertError => UNCHANGED << rows, feed, bookmarks >>
      /\ (handleSubmitResponse /\ addResult.error # Null) =>
           /\ error' = StoreErrorMsg
           /\ title' = title /\ trim(title') = addReq.title
           /\ url' = url /\ normaliseUrl(url') = addReq.url
           /\ bookmarks' = bookmarks
           /\ success' = success /\ ~isSubmitting'
    ]_vars

\* A rejected add has been reported, the fields still filled, the view
\* holding rows.
C11_Witness ==
  /\ error = StoreErrorMsg
  /\ addPc = "idle"
  /\ title = TitleD /\ url = UrlAIo
  /\ bookmarks # <<>>

\* C12: when the identity lookup of a submit finds no user, the form error is
\* the not-logged-in message (none of the validation messages, nor the
\* Store's), no create request is made, the Store and the view are left
\* alone and the form is enabled again.
C12_UnauthenticatedAdd ==
  [][ (handleSubmitGetUser /\ ~signedIn) =>
        /\ error' = MsgNotLoggedIn
        /\ MsgNotLoggedIn \notin ValidationMessages \cup { StoreErrorMsg }
        /\ addReq' = NoRequest /\ addPc' = "idle"
        /\ UNCHANGED << rows, nextId, feed, bookmarks >>
        /\ ~isSubmitting'
    ]_vars

\* A submit without a user has been refused and the fields can be edited.
C12_Witness ==
  /\ error = MsgNotLoggedIn
  /\ ~signedIn
  /\ ~isSubmitting
  /\ title = TitleD
  /\ bookmarks # <<>>

LiveStatuses == { "connecting", "connected", "error" }

\* C13: the live status starts as connecting and is always one of connecting,
\* connected, error; a step changes it only as the subscribe callback does
\* (SUBSCRIBED gives connected, CHANNEL_ERROR and TIMED_OUT give error, any
\* other acknowledgement leaves it), so it never goes back to connecting and
\* no add, delete, feed event or identity change touches it.
C13_LiveStatus ==
  /\ realtimeStatus = "connecting"
  /\ [](realtimeStatus \in LiveStatuses)
  /\ [][ /\ realtimeStatus' # realtimeStatus =>
              /\ realtimeStatus' # "connecting"
              /\ \E status \in { "SUBSCRIBED", "CHANNEL_ERROR", "TIMED_OUT" } :
                   subscribeStatus(status)
         /\ subscribeStatus("SUBSCRIBED") => realtimeStatus' = "connected"
         /\ subscribeStatus("CHANNEL_ERROR") => realtimeStatus' = "error"
         /\ subscribeStatus("TIMED_OUT") => realtimeStatus' = "error"
         /\ subscribeStatus("CLOSED") => realtimeStatus' = realtimeStatus
       ]_vars

\* The channel was joined and then closed, the status still connected, after
\* an add and a delete were confirmed.
C13_Witness ==
  /\ realtimeStatus = "connected"
  /\ channel = "down"
  /\ success
  /\ \E id \in Ids : id < nextId /\ (\A r \in rows : r.id # id) /\ delPc[id] = "idle"

\* The feed has sent this session the insert of a row of its user, or the
\* delete of a row, and the event is not delivered yet.
InsertSent(id) ==
  \E i \in 1..Len(feed) :
    feed[i].kind = "INSERT" /\ feed[i].new.id = id /\ feed[i].new.user_id = Me

DeleteSent(id) ==
  \E i \in 1..Len(feed) : feed[i].kind = "DELETE" /\ feed[i].old = id

\* C14: when a tab of the user adds a bookmark while this session's channel
\* is joined, the session's view eventually holds the bookmark; when a tab
\* deletes one, the view eventually lacks it; given that the feed delivers
\* the events it has sent.
C14_OtherTabsSeen ==
  \A id \in Ids :
    /\ InsertSent(id) ~> HasId(bookmarks, id)
    /\ DeleteSent(id) ~> ~HasId(bookmarks, id)

\* With the status connected, the insert of a row the view lacks and the
\* delete of a row the view holds are both on their way.
C14_Witness ==
  /\ realtimeStatus = "connected"
  /\ \E id \in Ids : InsertSent(id) /\ ~HasId(bookmarks, id)
  /\ \E id \in Ids : DeleteSent(id) /\ HasId(bookmarks, id)

\* No add, delete or re-fetch of the session is in flight and the feed has
\* delivered every event it has sent.
Quiescent == InFlight = 0 /\ feed = <<>>

\* C15: in every quiescent state every bookmark of the view is a row the
\* Store holds for the user, whatever other tabs did between the snapshot
\* and the moment the channel was joined.
C15_NoStaleWhenQuiescent ==
  Quiescent => \A i \in 1..Len(bookmarks) : bookmarks[i] \in rows

\* C16: every bookmark of the view is owned by the session's user, in every
\* reachable state, and the delivery of an insert event whose row has another
\* owner leaves the view as it is.
C16_OwnRowsOnly ==
  /\ [](\A i \in 1..Len(bookmarks) : bookmarks[i].user_id = Me)
  /\ [][ ( /\ feedDeliver
           /\ Head(feed).kind = "INSERT"
           /\ Head(feed).new.user_id # Me ) => bookmarks' = bookmarks
       ]_vars

\* The insert of another user's row is the next event for a session whose
\* view holds a row.
C16_Witness ==
  /\ feed # <<>>
  /\ Head(feed).kind = "INSERT"
  /\ Head(feed).new.user_id = Other
  /\ bookmarks # <<>>

\* The dashboard page is the answer: the request for its path was passed on.
ServedDashboard == response.kind = "next" /\ request.pathname = DashboardPath

\* C17 as claimed: every request without a user to a path starting with
\* /dashboard is redirected to /, every request with a user to / is
\* redirected to /dashboard, every other request is passed through; no
\* request without a user is served the dashboard, and a navigation follows
\* at most one redirect.
C17_RoutesEveryRequest ==
  /\ [][ respond =>
           response' =
             IF request.user = Null /\ startsWith(request.pathname, DashboardPath)
             THEN Redirect(RootPath)
             ELSE IF request.user # Null /\ request.pathname = RootPath
                  THEN Redirect(DashboardPath)
                  ELSE PassThrough
       ]_vars
  /\ [](ServedDashboard => request.user # Null)
  /\ [](redirects <= 1)

\* C17, amended: the routes are decided so for every request whose path the
\* matcher hands to the middleware; a request for a path the matcher leaves
\* out (a static asset, an image file) is passed through whatever its path and
\* user.  No request without a user is served the dashboard, and a navigation
\* follows at most one redirect.
C17_RoutesMatchedRequests ==
  /\ [][ respond =>
           response' =
             IF ~matcher(request.pathname)
             THEN PassThrough
             ELSE IF request.user = Null /\ startsWith(request.pathname, DashboardPath)
                  THEN Redirect(RootPath)
                  ELSE IF request.user # Null /\ request.pathname = RootPath
                       THEN Redirect(DashboardPath)
                       ELSE PassThrough
       ]_vars
  /\ [](ServedDashboard => request.user # Null)
  /\ [](redirects <= 1)

\* A request without a user was sent from under /dashboard to /, and / was
\* passed through.
C17_Witness ==
  /\ redirects = 1
  /\ response.kind = "next"
  /\ request.user = Null
  /\ request.pathname = RootPath

\* C18: when the recovery re-fetch of a rejected delete of A has returned
\* the row of B, and the delete of B is still awaiting its response, applying
\* the re-fetch puts B into the view and leaves B's delete in flight.
C18_RecoveryResurrects ==
  [][ \A a \in Ids : \A b \in Ids \ { a } :
        ( /\ handleDeleteRefetched(a)
          /\ AwaitingDelete(delPc[b])
          /\ ~delData[a].isNull
          /\ HasId(delData[a].list, b) ) =>
            (HasId(bookmarks', b) /\ AwaitingDelete(delPc'[b]))
    ]_vars

\* The execution exists: with no channel joined and no add made, the delete
\* of A was rejected and recovered, and B is in the view with its delete
\* request at the Store.
C18_Witness ==
  \E a \in Ids : \E b \in Ids \ { a } :
    /\ channel = "none" /\ addPc = "idle" /\ ~success
    /\ deleteError # Null /\ delPc[a] = "idle" /\ HasId(bookmarks, a)
    /\ delPc[b] = "delete" /\ b \in deletingIds /\ HasId(bookmarks, b)

\* C19: applying the recovery re-fetch keeps the view it finds, whole and in
\* its order, behind the rows it adds, also the bookmarks the re-fetch did
\* not return; with no data returned the view is unchanged.
C19_RecoveryOnlyAdds ==
  [][ \A id \in Ids :
        handleDeleteRefetched(id) =>
          /\ Len(bookmarks') >= Len(bookmarks)
          /\ SubSeq(bookmarks', Len(bookmarks') - Len(bookmarks) + 1, Len(bookmarks'))
               = bookmarks
          /\ delData[id].isNull => bookmarks' = bookmarks
    ]_vars

\* A re-fetch has returned a row the view lacks and has not returned a
\* bookmark the view holds.
C19_Witness ==
  \E id \in Ids :
    /\ delPc[id] = "selected"
    /\ ~delData[id].isNull
    /\ \E i \in 1..Len(bookmarks) : ~HasId(delData[id].list, bookmarks[i].id)
    /\ \E j \in 1..Len(delData[id].list) : ~HasId(bookmarks, delData[id].list[j].id)

\* The response of a successful add is due and the feed's next event is the
\* insert of the same row.
BothArrivalsDue ==
  /\ addPc = "inserted"
  /\ addResult.error = Null
  /\ feed # <<>>
  /\ Head(feed).kind = "INSERT"
  /\ Head(feed).new = addResult.data[1]

Occurrences(view, id) == Cardinality({ i \in 1..Len(view) : view[i].id = id })

\* C20: with the response of an add and the echo of its row both due,
\* whichever is handled first leaves the view that the other order gives, with
\* the row in it once, and the arrival still due will change nothing.
C20_ArrivalOrderIrrelevant ==
  [][ /\ (BothArrivalsDue /\ handleSubmitResponse) =>
           /\ bookmarks' = handleBookmarkAdded(
                             handleRealtimeInsert(bookmarks, addResult.data[1]),
                             addResult.data[1])
           /\ handleRealtimeInsert(bookmarks', addResult.data[1]) = bookmarks'
           /\ Occurrences(bookmarks', addResult.data[1].id) = 1
      /\ (BothArrivalsDue /\ feedDeliver) =>
           /\ bookmarks' = handleRealtimeInsert(
                             handleBookmarkAdded(bookmarks, addResult.data[1]),
                             addResult.data[1])
           /\ handleBookmarkAdded(bookmarks', addResult.data[1]) = bookmarks'
           /\ Occurrences(bookmarks', addResult.data[1].id) = 1
    ]_vars

\* Both arrivals are due for a row the view does not hold yet, behind which
\* the view holds another.
C20_Witness ==
  /\ BothArrivalsDue
  /\ ~HasId(bookmarks, addResult.data[1].id)
  /\ bookmarks # <<>>

\* C21 as claimed: the step that issues a delete request has removed the
\* bookmark from the view, the step that issues a create request has put the
\* new bookmark into the view, and the view lacks a bookmark in every state
\* in which the response to its delete is outstanding.
C21_OptimisticBeforeRequest ==
  /\ [][ /\ \A id \in Ids : handleDelete(id) => ~HasId(bookmarks', id)
         /\ (handleSubmitGetUser /\ signedIn) => Len(bookmarks') = Len(bookmarks) + 1
       ]_vars
  /\ [](\A id \in Ids : AwaitingDelete(delPc[id]) => ~HasId(bookmarks, id))

\* C21, amended: the step that issues a delete request has removed the
\* bookmark from the view.  An add is not optimistic: submitting, issuing the
\* create request and the Store executing it leave the view as it is, the
\* row the Store creates is not in the view at that moment, and the row is in
\* the view once the successful response has been handled.
C21_DeleteOptimisticAddOnResponse ==
  [][ /\ \A id \in Ids :
           handleDelete(id) => (~HasId(bookmarks', id) /\ delPc'[id] = "delete")
      /\ (handleSubmit \/ handleSubmitGetUser \/ storeInsert) => bookmarks' = bookmarks
      /\ storeInsert => ~HasId(bookmarks', nextId)
      /\ (handleSubmitResponse /\ addResult.error = Null) =>
           HasId(bookmarks', addResult.data[1].id)
    ]_vars

\* A delete request and the response of a successful add are both
\* outstanding, the view holding neither bookmark.
C21_Witness ==
  /\ addPc = "inserted"
  /\ addResult.error = Null
  /\ ~HasId(bookmarks, addResult.data[1].id)
  /\ \E id \in Ids : delPc[id] = "delete" /\ ~HasId(bookmarks, id)

\* C22: once the effect's cleanup has run the session has no auth listener
\* and no open channel, whether the cleanup came before or after the identity
\* lookup resolved and before or after any SIGNED_IN event.
C22_NoChannelAfterClose ==
  authSubscription = "unsubscribed" => channel = "none"

\* C23: while the list is mounted a channel exists exactly when isSubscribed
\* is set, a channel is created only by a call of startRealtime that finds
\* none, and a call that finds isSubscribed set (the lookup resolving after a
\* SIGNED_IN event, or any further SIGNED_IN event) leaves the channel alone.
C23_OneChannel ==
  /\ [](authSubscription = "listening" => (isSubscribed <=> channel # "none"))
  /\ [][ /\ ((getUserResolved \/ onSignedIn) /\ isSubscribed) =>
              UNCHANGED << isSubscribed, channel >>
         /\ (channel # "joining" /\ channel' = "joining") =>
              /\ channel = "none" /\ ~isSubscribed /\ isSubscribed'
              /\ getUserResolved \/ onSignedIn
         /\ channel # "none" => channel' # "none"
       ]_vars

\* The channel was created on a SIGNED_IN event and is joined; the identity
\* lookup is still to resolve with a user and call startRealtime again.
C23_Witness ==
  /\ isSubscribed
  /\ channel = "joined"
  /\ listPc = "getUser"
  /\ signedIn

\* C24 as claimed: once the live status is connected or error, no
\* acknowledgement changes it.
C24_StatusTerminal ==
  [][ (realtimeStatus = "connected" \/ realtimeStatus = "error") =>
        realtimeStatus' = realtimeStatus
    ]_vars

\* C24, amended: the status follows the acknowledgements of the one channel:
\* from connected it changes only to error, on CHANNEL_ERROR or TIMED_OUT,
\* from error only to connected, on SUBSCRIBED; the list itself starts no
\* new subscription.
C24_StatusFollowsAcks ==
  [][ (realtimeStatus # "connecting" /\ realtimeStatus' # realtimeStatus) =>
        /\ isSubscribed' = isSubscribed
        /\ \/ /\ realtimeStatus = "connected" /\ realtimeStatus' = "error"
              /\ subscribeStatus("CHANNEL_ERROR") \/ subscribeStatus("TIMED_OUT")
           \/ /\ realtimeStatus = "error" /\ realtimeStatus' = "connected"
              /\ subscribeStatus("SUBSCRIBED")
    ]_vars

\* The status is error while an event sent over the joined channel is still
\* to be delivered: it was connected before.
C24_Witness ==
  /\ realtimeStatus = "error"
  /\ feed # <<>>

C27_NoErrorFatal ==
  /\ [][ /\ handleSubmit /\ addPc' = "idle" => ~isSubmitting'
         /\ (addPc # "idle" /\ addPc' = "idle") => ~isSubmitting'
         /\ \A id \in Ids :
              (delPc[id] # "idle" /\ delPc'[id] = "idle") => id \notin deletingIds'
       ]_vars
  /\ (isSubmitting ~> ~isSubmitting)
  /\ \A id \in Ids : (id \in deletingIds) ~> (id \notin deletingIds)

\* An add was rejected by the Store and a delete was rejected and re-fetched,
\* and the session is idle again.
C27_Witness ==
  /\ error = StoreErrorMsg
  /\ ~isSubmitting
  /\ deleteError # Null
  /\ deletingIds = {}

\* The address as typed begins with a scheme that is neither http nor https.
OtherScheme(u) ==
  LET s == trim(u)
      n == SchemeLen(s)
  IN  n > 0 /\ toLowerCase(SubSeq(s, 1, n)) \notin SpecialSchemes

\* C28: a submit whose address carries a scheme other than http or https
\* ends with a validation message and starts no request; and the address of
\* every create request starts with http:// or https://.
C28_OtherSchemeRejected ==
  /\ [][ (handleSubmit /\ OtherScheme(url)) => (error' # Null /\ addPc' = "idle") ]_vars
  /\ [](addPc = "insert" =>
          (startsWith(addReq.url, HttpPrefix) \/ startsWith(addReq.url, HttpsPrefix)))

\* C29: the response of an accepted add empties the title and the address,
\* sets the success indicator and starts a timer; the indicator goes down
\* only in a timer's callback; it is up only while a timer is pending, and a
\* raised indicator is taken down again.
C29_SuccessIndicator ==
  /\ [][ (handleSubmitResponse /\ addResult.error = Null) =>
           (title' = <<>> /\ url' = <<>> /\ success' /\ timers' = timers + 1) ]_vars
  /\ [][ (success /\ ~success') => (successTimeout /\ timers > 0) ]_vars
  /\ [](success => timers > 0)
  /\ (success ~> ~success)

\* Two adds were accepted; the first one's timer has taken the indicator
\* down and the second one's is still pending.
C29_Witness ==
  /\ ~success
  /\ timers = 1
  /\ title = <<>> /\ url = <<>>
  /\ nextId = MaxRows + 1

\* C30: an identifier is in the deleting set exactly while a delete of it is
\* under way; a delete is started only for an identifier that is not in the
\* set, and while an identifier is in the set no delete of it can be started,
\* also when the bookmark is back in the view.
C30_OneDeletePerId ==
  /\ [](\A id \in Ids : id \in deletingIds <=> delPc[id] # "idle")
  /\ [](\A id \in Ids : id \in deletingIds => ~ENABLED handleDelete(id))
  /\ [][ \A id \in Ids : handleDelete(id) => (id \notin deletingIds /\ delPc[id] = "idle") ]_vars

\* A bookmark is back in the view while the response of its delete is
\* still awaited.
C30_Witness ==
  \E id \in Ids : id \in deletingIds /\ delPc[id] = "delete" /\ HasId(bookmarks, id)
====
